---- MODULE Spec2Model ----
(***************************************************************************)
(* Model of the plugin's host-side message dispatcher (src/code.ts):       *)
(* figma.ui.onmessage and the three handlers handleCopyLayer,              *)
(* handleInsertDesign and handleGoToFile, running on one event loop.       *)
(*                                                                         *)
(* The host document is modelled as far as the code touches it: a table    *)
(* of nodes, the children of the current page, the selection and the       *)
(* viewport.  The host is the one its API reference documents: a node     *)
(* made by createFrame, createText or clone is a child of the current      *)
(* page from its creation on, and appendChild moves it.                    *)
(*                                                                         *)
(* Host calls that may be refused are the ones that obtain something from  *)
(* the host (clone, createFrame, createText, loadFontAsync, openExternal)  *)
(* and, in an insert that resumes after its await, in a document that has  *)
(* been open to other handlers meanwhile, the calls that place, select     *)
(* and frame its nodes (lines 128, 131, 134, 135).                         *)
(* figma.notify is the reporting channel and is taken to be reliable.      *)
(*                                                                         *)
(* The character U+2713 that starts two of the notification texts is       *)
(* written "(tick)" because TLA+ strings are ASCII.                        *)
(***************************************************************************)
EXTENDS Integers, Sequences, FiniteSets, TLC

VARIABLES doc, notifications, openCalls, inserts, msgs, status, last

vars == <<doc, notifications, openCalls, inserts, msgs, status, last>>

(* ---------------------------- bounds and inputs ------------------------ *)

MaxMsgs == 2

\* the url and title a preview-action carries
Links == {[url |-> "https://figma.com/x", title |-> "Login Screen"],
          [url |-> "https://figma.com/y", title |-> ""]}
Texts == {"find login"}
Actions == {"copy", "insert", "goto", "share"}

\* values a refused host call throws: an Error object, or something else
Thrown == {[isError |-> TRUE, message |-> "Font unavailable"],
           [isError |-> FALSE, message |-> "boom"]}

Centers == {[x |-> 100, y |-> 100], [x |-> -300, y |-> -200]}

PreviewAction(a, l) ==
    [type |-> "preview-action", action |-> a, url |-> l.url, title |-> l.title]

\* the messages the panel sends: insert and goto with either link, the
\* other actions with the first one
Messages ==
    [type : {"user-message"}, text : Texts]
    \cup {PreviewAction(a, l) : a \in {"insert", "goto"}, l \in Links}
    \cup {PreviewAction(a, l) : a \in Actions \ {"insert", "goto"},
                                l \in {k \in Links : k.title # ""}}

(* ------------------------------ host document -------------------------- *)

Page == 0

CopyDelta == 20
FrameWidth == 400
FrameHeight == 300
HalfWidth == 200
HalfHeight == 150
LabelFontSize == 16
LabelOffset == 20

Range(s) == {s[i] : i \in DOMAIN s}

Remove(s, e) == SelectSeq(s, LAMBDA v : v # e)

NewNode(type, name, w, h) ==
    [type |-> type, name |-> name, x |-> 0, y |-> 0, width |-> w, height |-> h,
     parent |-> Page, children |-> <<>>, characters |-> "",
     fontSize |-> 12, fills |-> "default", src |-> 0]

\* the document a message finds: a rectangle and a container on the page,
\* and a rectangle nested in the container
InitNodes ==
    << NewNode("RECTANGLE", "A", 100, 100),
       [NewNode("FRAME", "Container", 200, 200)
            EXCEPT !.x = 200, !.y = 200, !.children = <<3>>],
       [NewNode("RECTANGLE", "B", 40, 40) EXCEPT !.parent = 2, !.x = 10, !.y = 10] >>

InitSelections == {<<>>, <<3>>, <<3, 1>>}

\* figma.createFrame(): a new frame node, id = its index in the node
\* table, the last child of the current page
createFrame(d) ==
    [d EXCEPT !.nodes = Append(@, NewNode("FRAME", "Frame", 100, 100)),
              !.page = Append(@, Len(d.nodes) + 1)]

\* figma.createText(): a new, empty text node, the last child of the
\* current page
createText(d) ==
    [d EXCEPT !.nodes = Append(@, NewNode("TEXT", "Text", 0, 0)),
              !.page = Append(@, Len(d.nodes) + 1)]

\* parent.appendChild(child): child leaves its old parent and becomes the
\* last child of the new one
appendChild(d, parent, child) ==
    LET old == d.nodes[child].parent
        d1 == IF old = Page THEN [d EXCEPT !.page = Remove(@, child)]
              ELSE [d EXCEPT !.nodes[old].children = Remove(@, child)]
        d2 == IF parent = Page THEN [d1 EXCEPT !.page = Append(@, child)]
              ELSE [d1 EXCEPT !.nodes[parent].children = Append(@, child)]
    IN [d2 EXCEPT !.nodes[child].parent = parent]

\* a deep copy of node id under parent par; src records the node each
\* copy was made from
RECURSIVE cloneRec(_, _, _)
RECURSIVE cloneKids(_, _, _)
cloneRec(ns, id, par) ==
    LET new == Len(ns) + 1
        ns1 == Append(ns, [ns[id] EXCEPT !.parent = par, !.children = <<>>, !.src = id])
    IN cloneKids(ns1, ns[id].children, new)

cloneKids(ns, kids, par) ==
    IF kids = <<>> THEN ns
    ELSE LET k == Len(ns) + 1
             ns1 == cloneRec(ns, Head(kids), par)
             ns2 == [ns1 EXCEPT ![par].children = Append(@, k)]
         IN cloneKids(ns2, Tail(kids), par)

\* node.clone(): a deep copy of the node, the last child of the current page
clone(d, id) ==
    [d EXCEPT !.nodes = cloneRec(@, id, Page),
              !.page = Append(@, Len(d.nodes) + 1)]

Min(S) == CHOOSE m \in S : \A v \in S : m <= v
Max(S) == CHOOSE m \in S : \A v \in S : m >= v

\* centre of the bounding box of a non-empty set of nodes
BoxCenter(boxes) ==
    LET left == Min({n.x : n \in boxes})
        right == Max({n.x + n.width : n \in boxes})
        top == Min({n.y : n \in boxes})
        bottom == Max({n.y + n.height : n \in boxes})
    IN [x |-> (left + right) \div 2, y |-> (top + bottom) \div 2]

\* figma.viewport.scrollAndZoomIntoView(ids): the viewport is centred on the
\* nodes; with no node there is nothing to centre on.  The boxes are bound
\* once, as a value, before their centre is computed.
scrollAndZoomIntoView(d, ids) ==
    [d EXCEPT !.viewport =
        IF ids = <<>> THEN [@ EXCEPT !.framed = ids]
        ELSE CHOOSE v \in {[center |-> BoxCenter(boxes), framed |-> ids] :
                              boxes \in {{d.nodes[i] : i \in Range(ids)}}} : TRUE]

(* ------------------------------ notifications -------------------------- *)

\* error instanceof Error ? error.message : 'Unknown error'
ErrorMessage(err) == IF err.isError THEN err.message ELSE "Unknown error"

ErrorPrefixes == {"Error copying layer: ", "Error inserting design: ", "Error opening file: "}

\* figma.notify(text) while handling message id; text is the list of the
\* pieces of the template literal
notify(notes, id, text) == Append(notes, [msg |-> id, text |-> text])

\* a catch block that reports only Error objects
catchNotifyErrorsOnly(notes, id, prefix, err) ==
    IF err.isError THEN notify(notes, id, <<prefix, err.message>>) ELSE notes

\* the catch block of a handler
catchNotify(notes, id, prefix, err) == notify(notes, id, <<prefix, ErrorMessage(err)>>)

IsErrorNote(n) == n.text[1] \in ErrorPrefixes

NotesOf(notes, id) == SelectSeq(notes, LAMBDA n : n.msg = id)

ErrorNotesOf(notes, id) == SelectSeq(notes, LAMBDA n : n.msg = id /\ IsErrorNote(n))

(* --------------------------------- handlers ---------------------------- *)

\* an offset that moves the clone along x only
OffsetCloneX(n) == [n EXCEPT !.x = @ + CopyDelta]

\* lines 80-81: duplicate.x += 20; duplicate.y += 20
OffsetClone(n) == [n EXCEPT !.x = @ + CopyDelta, !.y = @ + CopyDelta]

\* lines 78-84: the loop over the selection, from its i-th node on; the
\* clone of the failAt-th node is refused (failAt = 0: none is)
RECURSIVE copyLoop(_, _, _, _, _)
copyLoop(d, sel, i, dups, failAt) ==
    IF i > Len(sel) THEN [doc |-> d, duplicates |-> dups, failed |-> FALSE]
    ELSE IF i = failAt THEN [doc |-> d, duplicates |-> dups, failed |-> TRUE]
    ELSE LET dup == Len(d.nodes) + 1
             d1 == clone(d, sel[i])
             d2 == [d1 EXCEPT !.nodes[dup] = OffsetClone(@)]
             d3 == appendChild(d2, Page, dup)
         IN copyLoop(d3, sel, i + 1, Append(dups, dup), failAt)

\* a handler without the check for an empty selection
NothingSelectedUnchecked(selection) == FALSE

\* line 61: selection.length === 0
NothingSelected(selection) == Len(selection) = 0

\* lines 56-92
handleCopyLayer(d, notes, id, title, failAt, err) ==
    LET selection == d.selection
        ready == notify(notes, id, <<"(tick) Ready to copy: ", title,
                     ". Use Cmd+C (Mac) or Ctrl+C (Windows) to copy selected layers.">>)
        r == copyLoop(d, selection, 1, <<>>, failAt)
        d1 == [r.doc EXCEPT !.selection = r.duplicates]
    IN IF NothingSelected(selection)
       THEN [doc |-> d, outcome |-> "empty",
             notifications |-> notify(notes, id, <<"Please select a layer to copy first">>)]
       ELSE IF r.failed
       THEN [doc |-> r.doc, outcome |-> "failed",
             notifications |-> catchNotify(ready, id, "Error copying layer: ", err)]
       ELSE [doc |-> scrollAndZoomIntoView(d1, r.duplicates), outcome |-> "ok",
             notifications |-> ready]

\* a name that falls back to a default when the title is empty
ConfigureFrameDefaultName(n, title) ==
    [n EXCEPT !.name = IF title = "" THEN "Design" ELSE title,
              !.width = FrameWidth, !.height = FrameHeight]

\* lines 99-100: frame.name = title; frame.resize(400, 300)
ConfigureFrame(n, title) ==
    [n EXCEPT !.name = title, !.width = FrameWidth, !.height = FrameHeight]

\* a position that puts the frame's corner, not its centre, on the centre
InsertPositionCorner(center) == [x |-> center.x, y |-> center.y]

\* lines 103-106
InsertPosition(center) == [x |-> center.x - HalfWidth, y |-> center.y - HalfHeight]

\* lines 98-118: the placeholder frame is created, named, sized, placed
\* and painted
buildFrame(d, title) ==
    LET frame == Len(d.nodes) + 1
        d1 == createFrame(d)
        d2 == [d1 EXCEPT !.nodes[frame] = ConfigureFrame(@, title)]
        viewportCenter == InsertPosition(d.viewport.center)
    IN [d2 EXCEPT !.nodes[frame].x = viewportCenter.x,
                  !.nodes[frame].y = viewportCenter.y,
                  !.nodes[frame].fills = "gradient"]

\* lines 96-122: handleInsertDesign up to the await; fail names the host
\* call that is refused ("none": the handler reaches the await)
insertStart(d, notes, id, title, fail, err) ==
    LET frame == Len(d.nodes) + 1
        text == frame + 1
        d3 == buildFrame(d, title)
        caught == catchNotify(notes, id, "Error inserting design: ", err)
    IN IF fail = "createFrame"
       THEN [doc |-> d, notifications |-> caught, outcome |-> "failed",
             frame |-> 0, text |-> 0]
       ELSE IF fail = "createText"
       THEN [doc |-> d3, notifications |-> caught, outcome |-> "failed",
             frame |-> frame, text |-> 0]
       ELSE [doc |-> createText(d3), notifications |-> notes, outcome |-> "suspended",
             frame |-> frame, text |-> text]

\* variables shared by all calls: the nodes that were created last
heldNodesShared(d, e) == [frame |-> Len(d.nodes) - 1, text |-> Len(d.nodes)]

\* lines 98 and 121: the frame and the text node are constants of the
\* call, which it still holds when it resumes; e is what the suspended
\* call holds (its message, title, frame and text node)
heldNodes(d, e) == [frame |-> e.frame, text |-> e.text]

\* a selection that gains the frame instead of being replaced by it
selectFrameAlso(d, frame) == [d EXCEPT !.selection = Append(@, frame)]

\* line 134: figma.currentPage.selection = [frame]
selectFrame(d, frame) == [d EXCEPT !.selection = <<frame>>]

\* the host calls of lines 123-135 that may be refused, after the font load
ResumeCalls == {"appendText", "appendFrame", "select", "scroll"}

\* lines 123-135: the label is filled in and put in the frame, the frame
\* is made the last child of the page, selected and framed; failAt names
\* the call that is refused ("none": all are accepted), and the document
\* keeps what the calls before it did
finishInsert(d, e, failAt) ==
    LET n == heldNodes(d, e)
        d1 == [d EXCEPT !.nodes[n.text].characters = e.title,
                        !.nodes[n.text].fontSize = LabelFontSize,
                        !.nodes[n.text].fills = "white",
                        !.nodes[n.text].x = LabelOffset,
                        !.nodes[n.text].y = LabelOffset]
        d2 == appendChild(d1, n.frame, n.text)
        d3 == appendChild(d2, Page, n.frame)
        d4 == selectFrame(d3, n.frame)
    IN CASE failAt = "appendText" -> d1
         [] failAt = "appendFrame" -> d2
         [] failAt = "select" -> d3
         [] failAt = "scroll" -> d4
         [] OTHER -> scrollAndZoomIntoView(d4, <<n.frame>>)

\* lines 122-147: handleInsertDesign from the settling of the font load
\* on; failAt is "loadFont" when the font load is rejected
insertResume(d, notes, e, failAt, err) ==
    IF failAt = "none"
       THEN [doc |-> finishInsert(d, e, failAt), outcome |-> "ok",
             notifications |-> notify(notes, e.msg, <<"(tick) Inserted design: ", e.title>>)]
       ELSE [doc |-> IF failAt = "loadFont" THEN d ELSE finishInsert(d, e, failAt),
             outcome |-> "failed",
             notifications |-> catchNotify(notes, e.msg, "Error inserting design: ", err)]

\* a handler that announces the opening before it asks the host for it
handleGoToFileNotifyFirst(notes, calls, id, url, title, opened, err) ==
    LET called == Append(calls, [msg |-> id, url |-> url, ok |-> opened])
        announced == notify(notes, id, <<"Opening: ", title>>)
    IN IF opened
       THEN [openCalls |-> called, outcome |-> "ok", notifications |-> announced]
       ELSE [openCalls |-> called, outcome |-> "failed",
             notifications |-> catchNotify(announced, id, "Error opening file: ", err)]

\* lines 151-167; opened tells whether the host accepts openExternal
handleGoToFile(notes, calls, id, url, title, opened, err) ==
    LET called == Append(calls, [msg |-> id, url |-> url, ok |-> opened])
    IN IF opened
       THEN [openCalls |-> called, outcome |-> "ok",
             notifications |-> notify(notes, id, <<"Opening: ", title>>)]
       ELSE [openCalls |-> called, outcome |-> "failed",
             notifications |-> catchNotify(notes, id, "Error opening file: ", err)]

(* -------------------------------- dispatcher --------------------------- *)

\* a switch whose last case also takes every other action
onmessageRouteDefault(msg) ==
    IF msg.type = "user-message" THEN "log"
    ELSE CASE msg.action = "copy" -> "copy"
           [] msg.action = "insert" -> "insert"
           [] OTHER -> "goto"

\* the branch figma.ui.onmessage takes for a message
onmessageRoute(msg) ==
    IF msg.type = "user-message" THEN "log"
    ELSE IF msg.type = "preview-action"
         THEN CASE msg.action = "copy" -> "copy"
                [] msg.action = "insert" -> "insert"
                [] msg.action = "goto" -> "goto"
                [] OTHER -> "none"
         ELSE "none"

Init ==
    /\ doc \in [nodes : {InitNodes}, page : {<<1, 2>>}, selection : InitSelections,
                viewport : [center : Centers, framed : {<<>>}]]
    /\ notifications = <<>>
    /\ openCalls = <<>>
    /\ inserts = <<>>
    /\ msgs = <<>>
    /\ status = <<>>
    /\ last = [id |-> 0, kind |-> "none"]

\* a message arrives and onmessage starts handling it
Receive(msg, outcome) ==
    /\ Len(msgs) < MaxMsgs
    /\ msgs' = Append(msgs, msg)
    /\ status' = Append(status, outcome)
    /\ last' = [id |-> Len(msgs) + 1, kind |-> "message"]

\* lines 27-36: a user-message is logged to the console, nothing else
UserMessage(msg) ==
    /\ onmessageRoute(msg) = "log"
    /\ Receive(msg, "logged")
    /\ UNCHANGED <<doc, notifications, openCalls, inserts>>

\* lines 41-51: no case of the switch matches
Unrecognized(msg) ==
    /\ onmessageRoute(msg) = "none"
    /\ Receive(msg, "ignored")
    /\ UNCHANGED <<doc, notifications, openCalls, inserts>>

\* lines 42-44 and 56-92: copy runs to its end in one turn of the event loop
CopyLayer(msg) ==
    /\ onmessageRoute(msg) = "copy"
    /\ \E failAt \in 0..Len(doc.selection), err \in Thrown :
          LET r == handleCopyLayer(doc, notifications, Len(msgs) + 1, msg.title, failAt, err)
          IN /\ Receive(msg, r.outcome)
             /\ doc' = r.doc
             /\ notifications' = r.notifications
    /\ UNCHANGED <<openCalls, inserts>>

\* lines 45-47 and 95-122: insert runs until it fails or awaits the font
InsertDesign(msg) ==
    /\ onmessageRoute(msg) = "insert"
    /\ \E fail \in {"none", "createFrame", "createText"}, err \in Thrown :
          LET r == insertStart(doc, notifications, Len(msgs) + 1, msg.title, fail, err)
          IN /\ Receive(msg, r.outcome)
             /\ doc' = r.doc
             /\ notifications' = r.notifications
             /\ inserts' = Append(inserts,
                    [msg |-> Len(msgs) + 1, title |-> msg.title, frame |-> r.frame,
                     text |-> r.text, state |-> r.outcome,
                     font |-> "pending",
                     center |-> doc.viewport.center,
                     centerAtResume |-> doc.viewport.center])
    /\ UNCHANGED openCalls

\* lines 122-147: the font load settles and a suspended insert goes on
InsertResume(i) ==
    /\ inserts[i].state = "suspended"
    /\ \E failAt \in {"none", "loadFont"} \cup ResumeCalls, err \in Thrown :
          LET r == insertResume(doc, notifications, inserts[i], failAt, err)
          IN /\ doc' = r.doc
             /\ notifications' = r.notifications
             /\ inserts' = [inserts EXCEPT ![i].state = r.outcome,
                                           ![i].font = IF failAt = "loadFont"
                                                       THEN "failed" ELSE "loaded",
                                           ![i].centerAtResume = doc.viewport.center]
             /\ status' = [status EXCEPT ![inserts[i].msg] = r.outcome]
    /\ last' = [id |-> inserts[i].msg, kind |-> "resume"]
    /\ UNCHANGED <<openCalls, msgs>>

\* lines 48-50 and 151-167
GoToFile(msg) ==
    /\ onmessageRoute(msg) = "goto"
    /\ \E opened \in BOOLEAN, err \in Thrown :
          LET r == handleGoToFile(notifications, openCalls, Len(msgs) + 1,
                                  msg.url, msg.title, opened, err)
          IN /\ Receive(msg, r.outcome)
             /\ notifications' = r.notifications
             /\ openCalls' = r.openCalls
    /\ UNCHANGED <<doc, inserts>>

\* lines 26-53: figma.ui.onmessage is called with msg
onmessage(msg) ==
    \/ UserMessage(msg)
    \/ Unrecognized(msg)
    \/ CopyLayer(msg)
    \/ InsertDesign(msg)
    \/ GoToFile(msg)

Next ==
    \/ \E msg \in Messages : onmessage(msg)
    \/ \E i \in DOMAIN inserts : InsertResume(i)

Spec == Init /\ [][Next]_vars

(* --------------------------------- properties -------------------------- *)

\* what a user sees of the document: page children, selection, viewport
Visible(d) == [page |-> d.page, selection |-> d.selection, viewport |-> d.viewport]

Count(s, e) == Len(SelectSeq(s, LAMBDA v : v = e))

\* this step is onmessage receiving a preview-action with action a
Handles(a) ==
    /\ last'.kind = "message"
    /\ last'.id = Len(msgs) + 1
    /\ msgs'[last'.id].type = "preview-action"
    /\ msgs'[last'.id].action = a

\* the last step was onmessage receiving a preview-action with action a
Handled(a) ==
    /\ last.kind = "message"
    /\ msgs[last.id].type = "preview-action"
    /\ msgs[last.id].action = a

\* this step is the resumption of the i-th insert
Resumes(i) ==
    /\ inserts[i].state = "suspended"
    /\ inserts'[i].state # "suspended"

Suspended == {i \in DOMAIN inserts : inserts[i].state = "suspended"}

\* the dispatcher takes any message (as long as the model admits one more)
Ready == \A msg \in Messages : ENABLED onmessage(msg)

InsertedNote(e) == [msg |-> e.msg, text |-> <<"(tick) Inserted design: ", e.title>>]

(* C1 *)

\* C1 as stated: while an insert is suspended at its font load, no step of
\* another handler changes page children, selection or viewport.
C1_NoMutationWhileSuspended ==
    [][ (\E i \in Suspended : inserts'[i].state = "suspended")
            => Visible(doc') = Visible(doc) ]_vars

C1_SuspendedUntouchedInv ==
    \A i \in Suspended :
        /\ {inserts[i].frame, inserts[i].text} \cap Range(doc.selection) = {}
        /\ {inserts[i].frame, inserts[i].text} \cap Range(doc.viewport.framed) = {}

C1_SuspendedUntouchedStep ==
    \A i \in Suspended :
        inserts'[i].state = "suspended"
            => /\ doc'.nodes[inserts[i].frame] = doc.nodes[inserts[i].frame]
               /\ doc'.nodes[inserts[i].text] = doc.nodes[inserts[i].text]
               /\ Visible(doc') # Visible(doc)
                     => \/ Handles("copy")
                        \/ Handles("insert")
                        \/ \E j \in Suspended \ {i} : Resumes(j)

\* C1, amended: while an insert is suspended at its font load, the handlers
\* of a copy and of another insert do run and change page children,
\* selection and viewport; no other handler (goto, user-message, unrecognized
\* action) changes them, and no handler changes, selects or frames the
\* suspended insert's own frame and text node.
C1_SuspendedInsertUntouched ==
    []C1_SuspendedUntouchedInv /\ [][C1_SuspendedUntouchedStep]_vars

\* a copy has changed the visible document while an insert was suspended
C1_Witness ==
    /\ Suspended # {}
    /\ Handled("copy")
    /\ status[last.id] = "ok"
    /\ \E i \in Suspended : inserts[i].msg < last.id
    /\ doc.viewport.framed = doc.selection

(* C2 *)

\* C2: a message whose handler met a host failure has exactly one error
\* notification, a message whose handler met none has no error notification,
\* and when a handler has just failed the dispatcher takes every message.
C2_OneErrorNotification ==
    /\ \A id \in DOMAIN msgs :
          Len(ErrorNotesOf(notifications, id)) = IF status[id] = "failed" THEN 1 ELSE 0
    /\ (Len(msgs) < MaxMsgs /\ last.id > 0 /\ status[last.id] = "failed") => Ready

\* a failed message, not reported as an Error object, followed by a message
\* that was handled with success
C2_Witness ==
    \E id \in DOMAIN msgs :
        /\ status[id] = "failed"
        /\ \E n \in Range(notifications) : n.msg = id /\ n.text[2] = "Unknown error"
        /\ \E later \in DOMAIN msgs : later > id /\ status[later] = "ok"

(* C3 *)

\* C3: a copy handled while the selection is empty leaves the document as it
\* is and issues exactly one notification, the "please select" one.
C3_EmptyCopy ==
    [][ (Handles("copy") /\ doc.selection = <<>>)
            => /\ doc' = doc
               /\ openCalls' = openCalls
               /\ notifications' = Append(notifications,
                      [msg |-> last'.id, text |-> <<"Please select a layer to copy first">>]) ]_vars

C3_Witness ==
    /\ Handled("copy")
    /\ status[last.id] = "empty"
    /\ doc.selection = <<>>
    /\ Len(NotesOf(notifications, last.id)) = 1

(* C4 *)

\* the nodes a step created that are not inside another node it created
NewRoots ==
    LET new == DOMAIN doc'.nodes \ DOMAIN doc.nodes
    IN {k \in new : doc'.nodes[k].parent \notin new}

\* C4: a copy of a selection of N >= 1 nodes that meets no failure creates
\* exactly N clones, the i-th a clone of the i-th selected node at that
\* node's position plus (20, 20); the selection becomes the N clones in
\* input order and the viewport frames exactly them.
C4_CopyClones ==
    [][ (Handles("copy") /\ status'[last'.id] = "ok")
            => LET old == doc.selection
                   new == doc'.selection
               IN /\ Len(old) >= 1
                  /\ Len(new) = Len(old)
                  /\ Cardinality(Range(new)) = Len(old)
                  /\ NewRoots = Range(new)
                  /\ \A i \in DOMAIN old :
                        /\ doc'.nodes[new[i]].src = old[i]
                        /\ doc'.nodes[new[i]].x = doc.nodes[old[i]].x + 20
                        /\ doc'.nodes[new[i]].y = doc.nodes[old[i]].y + 20
                        /\ doc'.nodes[new[i]].width = doc.nodes[old[i]].width
                        /\ doc'.nodes[new[i]].name = doc.nodes[old[i]].name
                  /\ \A k \in DOMAIN doc.nodes : doc'.nodes[k] = doc.nodes[k]
                  /\ doc'.viewport.framed = new ]_vars

\* two nodes were copied
C4_Witness ==
    /\ Handled("copy")
    /\ status[last.id] = "ok"
    /\ Len(doc.selection) = 2
    /\ doc.nodes[doc.selection[1]].src = 3
    /\ doc.nodes[doc.selection[2]].src = 1

(* C5 *)

\* C5 as stated: after a copy, every clone has the parent of the node it was
\* cloned from.
C5_CloneUnderSourceParent ==
    (Handled("copy") /\ status[last.id] = "ok")
        => \A i \in DOMAIN doc.selection :
              doc.nodes[doc.selection[i]].parent
                  = doc.nodes[doc.nodes[doc.selection[i]].src].parent

(* C6 *)

\* C6: the frame of every insert lies with (x + 200, y + 150) on the
\* viewport centre the insert message found, whatever the centre is and
\* whatever the viewport has become since.
C6_FrameCentred ==
    \A i \in DOMAIN inserts :
        inserts[i].frame # 0
            => /\ doc.nodes[inserts[i].frame].x + 200 = inserts[i].center.x
               /\ doc.nodes[inserts[i].frame].y + 150 = inserts[i].center.y

\* an insert found a negative centre, and completed after another handler
\* had moved the viewport
C6_Witness ==
    \E i \in DOMAIN inserts :
        /\ inserts[i].state = "ok"
        /\ inserts[i].center.x < 0
        /\ inserts[i].centerAtResume # inserts[i].center
        /\ doc.nodes[inserts[i].frame].x = inserts[i].center.x - 200

(* C7 *)

\* C7: the frame of every insert has the message's title as its name, the
\* empty title included, and is 400 wide and 300 high.
C7_FrameNameAndSize ==
    \A i \in DOMAIN inserts :
        inserts[i].frame # 0
            => /\ doc.nodes[inserts[i].frame].name = msgs[inserts[i].msg].title
               /\ doc.nodes[inserts[i].frame].width = 400
               /\ doc.nodes[inserts[i].frame].height = 300

\* frames for an empty and for a non-empty title, from different urls
C7_Witness ==
    \E i, j \in DOMAIN inserts :
        /\ inserts[i].frame # 0 /\ inserts[j].frame # 0
        /\ msgs[inserts[i].msg].title = "" /\ doc.nodes[inserts[i].frame].name = ""
        /\ msgs[inserts[j].msg].title = "Login Screen"
        /\ msgs[inserts[i].msg].url # msgs[inserts[j].msg].url

(* C8 *)

GotoCall == Append(openCalls, [msg |-> last'.id, url |-> msgs'[last'.id].url,
                               ok |-> status'[last'.id] = "ok"])

\* C8 as stated: a goto leaves the document as it is, makes exactly one
\* external-open call with the message's url and issues exactly one
\* notification, which contains the message's title.
C8_GotoAlwaysNamesTitle ==
    [][ Handles("goto")
            => /\ doc' = doc
               /\ openCalls' = GotoCall
               /\ notifications' = Append(notifications,
                      [msg |-> last'.id, text |-> <<"Opening: ", msgs'[last'.id].title>>]) ]_vars

\* C8, amended: a goto leaves the document as it is, makes exactly one
\* external-open call with the message's url and issues exactly one
\* notification: "Opening: <title>" when the host accepts the call, and the
\* error notification "Error opening file: <message>" when it refuses it.
C8_GotoEffects ==
    [][ Handles("goto")
            => /\ doc' = doc
               /\ inserts' = inserts
               /\ openCalls' = GotoCall
               /\ \E n \in Range(notifications') :
                     /\ notifications' = Append(notifications, n)
                     /\ n.msg = last'.id
                     /\ IF status'[last'.id] = "ok"
                        THEN n.text = <<"Opening: ", msgs'[last'.id].title>>
                        ELSE /\ status'[last'.id] = "failed"
                             /\ Len(n.text) = 2
                             /\ n.text[1] = "Error opening file: " ]_vars

\* a goto that the host refused, after one that it accepted
C8_Witness ==
    /\ Handled("goto")
    /\ status[last.id] = "failed"
    /\ Len(openCalls) = 2
    /\ openCalls[1].ok /\ ~openCalls[2].ok
    /\ openCalls[2].url = msgs[last.id].url

(* C9 *)

Inert(msg) ==
    \/ msg.type = "user-message"
    \/ msg.type = "preview-action" /\ msg.action \notin {"copy", "insert", "goto"}

C9_NoEffectStep ==
    (last'.kind = "message" /\ last'.id = Len(msgs) + 1 /\ Inert(msgs'[last'.id]))
        => /\ doc' = doc
           /\ notifications' = notifications
           /\ openCalls' = openCalls
           /\ inserts' = inserts

C9_ReadyAfter ==
    (last.kind = "message" /\ Inert(msgs[last.id]) /\ Len(msgs) < MaxMsgs) => Ready

\* C9: a user-message, and a preview-action whose action is none of copy,
\* insert and goto, changes nothing in the document, issues no notification
\* and opens nothing, and the dispatcher takes the next message.
C9_InertMessages == []C9_ReadyAfter /\ [][C9_NoEffectStep]_vars

\* an unrecognized action was ignored after a user-message was
C9_Witness ==
    /\ Len(msgs) = 2
    /\ msgs[1].type = "user-message"
    /\ Handled("share")
    /\ status = <<"logged", "ignored">>
    /\ notifications = <<>> /\ openCalls = <<>>

(* C10 *)

SuccessNotes(notes, id) ==
    SelectSeq(notes, LAMBDA n : n.msg = id /\ n.text[1] = "(tick) Inserted design: ")

\* C10 as stated: in every interleaving, an insert whose font load succeeds
\* has its own frame on the page exactly once and, when it completes, the
\* selection is that frame alone and exactly one success notification with
\* its title has been issued for it; an insert whose font load fails has put
\* nothing on the page, leaves selection and viewport as it found them when
\* it resumed, and issues no success notification.
C10_FontLoadDecides ==
    [][ \A i \in DOMAIN inserts :
          Resumes(i)
            => LET e == inserts[i]
               IN IF inserts'[i].font = "loaded"
                  THEN /\ Count(doc'.page, e.frame) = 1
                       /\ doc'.selection = <<e.frame>>
                       /\ notifications' = Append(notifications, InsertedNote(e))
                  ELSE /\ {e.frame, e.text} \cap Range(doc'.page) = {}
                       /\ doc'.selection = doc.selection
                       /\ doc'.viewport = doc.viewport
                       /\ Len(SuccessNotes(notifications', e.msg)) = 0 ]_vars

C10_ResumeStep ==
    \A i \in DOMAIN inserts :
        Resumes(i)
            => LET e == inserts[i]
                   rest == Remove(Remove(doc.page, e.frame), e.text)
               IN IF inserts'[i].state = "ok"
                  THEN /\ inserts'[i].font = "loaded"
                       /\ doc'.page = Append(rest, e.frame)
                       /\ doc'.nodes[e.frame].children = <<e.text>>
                       /\ doc'.nodes[e.text].characters = e.title
                       /\ doc'.selection = <<e.frame>>
                       /\ doc'.viewport.framed = <<e.frame>>
                       /\ notifications' = Append(notifications, InsertedNote(e))
                  ELSE /\ inserts'[i].state = "failed"
                       /\ inserts'[i].font = "failed" => doc' = doc
                       /\ \E n \in Range(notifications') :
                             /\ notifications' = Append(notifications, n)
                             /\ n.msg = e.msg
                             /\ n.text[1] = "Error inserting design: "

C10_InsertsInv ==
    \A i \in DOMAIN inserts :
        LET e == inserts[i]
        IN /\ e.title = msgs[e.msg].title
           /\ e.frame # 0 => Count(doc.page, e.frame) = 1
           /\ (e.text # 0 /\ e.font # "loaded") => Count(doc.page, e.text) = 1
           /\ Len(SuccessNotes(notifications, e.msg)) = IF e.state = "ok" THEN 1 ELSE 0
           /\ Count(notifications, InsertedNote(e)) = IF e.state = "ok" THEN 1 ELSE 0

\* C10, amended: in every interleaving, an insert whose font load succeeds
\* and whose later host calls are all accepted leaves its own frame on the
\* page exactly once, as the last page child and holding its label; when it
\* completes, the selection is that frame alone and exactly one success
\* notification with its title has been issued for it.  An insert whose
\* font load fails changes nothing when it resumes (page children, selection
\* and viewport stay as it found them) and issues one error notification and
\* no success notification, but the frame and the text node it created
\* before the await stay on the page.  An insert that is refused a host call
\* after its font load issues one error notification and no success
\* notification.
C10_InsertCompletion == []C10_InsertsInv /\ [][C10_ResumeStep]_vars

\* two inserts were suspended together; the second one completed first, the
\* first one's font load failed and its frame and text node are on the page
C10_Witness ==
    /\ Len(inserts) = 2
    /\ inserts[2].state = "ok"
    /\ inserts[1].state = "failed"
    /\ inserts[1].font = "failed"
    /\ {inserts[1].frame, inserts[1].text} \subseteq Range(doc.page)
    /\ last = [id |-> inserts[1].msg, kind |-> "resume"]
    /\ doc.selection = <<inserts[2].frame>>
    /\ doc.page[Len(doc.page)] = inserts[2].frame
====
